---- MODULE Spec2Model ----
(***************************************************************************)
(* The Dominion simulation of src/main.py and its variant src/yuchen.py.   *)
(*                                                                         *)
(* Both files define DominionCard, DominionPlayer and DominionGame; the    *)
(* variable impl says which file's classes are loaded.                     *)
(*                                                                         *)
(* A DominionPlayer is a record of its fields.  A zone (deck, hand,        *)
(* discard_pile) is kept as the bag of the card names in it, a function    *)
(* from name to count: every card enters a deck through random.shuffle     *)
(* (initialize_deck, shuffle_discard_into_deck) and leaves it from the     *)
(* top, and the order of the hand and of the discard pile is read by       *)
(* nothing but the next shuffle, so the top card of a deck is any card of  *)
(* the shuffled block it belongs to.  A DominionCard is named by its name; *)
(* its other fields are functions of the name, except cost, which only     *)
(* buy_card reads and which is an argument of the buy.                     *)
(*                                                                         *)
(* Spec calls the methods of a DominionPlayer in any order, with any       *)
(* card.  SpecGame runs the game loop of each file.  SpecDraw calls        *)
(* draw_hand on a player whose zones are any short lists, SpecScore calls  *)
(* check_game_over on players owning any cards, SpecSetup creates a game   *)
(* for any number of players and runs its loop, and SpecTurn runs          *)
(* main.py's turns for a player with any actions and buys left.            *)
(***************************************************************************)
EXTENDS Integers, Sequences, FiniteSets, TLC

VARIABLES impl, players, supply, game_over, turn, cur, pc, bought, op, scores

vars == <<impl, players, supply, game_over, turn, cur, pc, bought, op, scores>>

(* ------------------------------ bounds -------------------------------- *)

\* Players of the game, len(players).
NumPlayers == 2
\* Largest coins or buys value a play may build up.
MaxCounter == 2
\* main.py's play_action_card and buy_card take actions and buys below 0;
\* they are followed down to -MaxDebt.
MaxDebt == 1
\* Successful buys followed per player.
MaxBought == 2
\* Largest cost of a card handed to buy_card.
MaxCost == 1
\* Cards left in each supply pile when the method calls of Spec start: the
\* piles are followed from their last MaxPile cards, so that they run out.
MaxPile == 1
\* num_kingdom_cards, the number of kingdom piles of a game.
NumKingdom == 1
\* Supply piles already sold out when the game loop of SpecGame starts.
MaxEmptied == 3
\* Turns the game loop of SpecGame is followed for.
MaxTurns == 4
\* Cards of one name in a zone of the player SpecDraw hands to draw_hand and
\* SpecScore to check_game_over.
MaxZone == 3
\* Players SpecSetup creates a game with.
MaxPlayers == 5

(* --------------------------- program constants ------------------------ *)

HandSize == 5
StartCopper == 7
StartEstate == 3
KingdomCopies == 10
EndPiles == 3

Players == 1..NumPlayers

(* ------------------------------- cards -------------------------------- *)

\* The keys initialize_supply adds first, in the order it adds them.
BasicOrder == <<"Copper", "Silver", "Gold", "Estate", "Duchy", "Province", "Curse">>
BasicNames == {BasicOrder[i] : i \in DOMAIN BasicOrder}
\* The cards of base_action_cards that the model's games choose among.
KingdomOrder == <<"Market", "Gardens">>
KingdomNames == {KingdomOrder[i] : i \in DOMAIN KingdomOrder}
\* The names of the cards a zone can hold.
CardNames == {"Copper", "Estate", "Province", "Curse", "Market", "Gardens"}
\* The names of the cards handed to play_action_card and buy_card: a Treasure
\* of the starting deck and an Action that is or is not in the supply.
Handed == {"Copper", "Market"}
\* The DominionPlayer objects whose methods Spec calls; the players share
\* nothing but the supply dict.
Tested == {1}

\* card.card_type
card_type(n) ==
    CASE n \in {"Copper", "Silver", "Gold"} -> "Treasure"
      [] n \in {"Estate", "Duchy", "Province", "Gardens"} -> "Victory"
      [] n = "Curse" -> "Curse"
      [] OTHER -> "Action"

\* card.coins
card_coins(n) ==
    CASE n = "Copper" -> 1
      [] n = "Market" -> 1
      [] OTHER -> 0

\* card.buys
card_buys(n) == IF n = "Market" THEN 1 ELSE 0

\* card.vp: 1 for the Estates of initialize_deck, 0 where the constructor is
\* given none (Gardens in base_action_cards); Province and Curse are
\* constructed by the caller of buy_card, here with 6 and -1.
card_vp(n) ==
    CASE n = "Estate" -> 1
      [] n = "Province" -> 6
      [] n = "Curse" -> 0 - 1
      [] OTHER -> 0

\* card.draw, a field of yuchen.py's DominionCard only; these are the values
\* the cards of the model are constructed with.
card_draw(n) == IF n = "Market" THEN 1 ELSE 0

\* The categories the specification lets playAction play.
IsAction(n) == card_type(n) \in {"Action", "Action-Attack", "Action-Reaction"}

(* -------------------------------- bags -------------------------------- *)

EmptyBag == [n \in CardNames |-> 0]

RECURSIVE SumOver(_, _)
SumOver(b, S) ==
    IF S = {} THEN 0
    ELSE LET n == CHOOSE x \in S : TRUE IN b[n] + SumOver(b, S \ {n})

\* len(zone)
Len_(b) == SumOver(b, DOMAIN b)

BagAdd(b, n) == [b EXCEPT ![n] = @ + 1]
BagRemove(b, n) == [b EXCEPT ![n] = @ - 1]
BagPlus(a, b) == [n \in DOMAIN a |-> a[n] + b[n]]
BagMinus(a, b) == [n \in DOMAIN a |-> a[n] - b[n]]
BagLeq(a, b) == \A n \in DOMAIN a : a[n] <= b[n]

Min(a, b) == IF a <= b THEN a ELSE b

\* The bags the first k cards of a shuffled block with bag b can form.
RECURSIVE FirstOf(_, _)
FirstOf(b, k) ==
    IF k <= 0 \/ Len_(b) = 0 THEN {EmptyBag}
    ELSE LET prev == FirstOf(b, k - 1)
         IN  IF Len_(b) < k THEN prev
             ELSE UNION {{BagAdd(s, n) : n \in {m \in DOMAIN b : s[m] < b[m]}} : s \in prev}

\* len(deck) + len(hand) + len(discard_pile) of the player pl.
Owned(pl) == Len_(pl.deck) + Len_(pl.hand) + Len_(pl.discard_pile)

\* player.deck + player.hand + player.discard_pile, as a bag.
AllCards(pl) == BagPlus(pl.deck, BagPlus(pl.hand, pl.discard_pile))

(* ------------------------------- setup -------------------------------- *)

\* The dict `supply = {}`.
NoSupply == [k \in {} |-> 0]

\* main.py DominionGame.initialize_supply for n players and the selection sel
\* of kingdom cards: what it raises ("None": nothing) and the dict it returns.
\* It raises ValueError when n is not 2, 3 or 4.
main_initialize_supply(n, sel) ==
    IF n \notin {2, 3, 4} THEN [ret |-> "ValueError", supply |-> NoSupply]
    ELSE [ret |-> "None",
          supply |-> [k \in BasicNames \cup sel |->
                        CASE k = "Copper" -> 60 - (n * 7)
                          [] k = "Silver" -> 40
                          [] k = "Gold" -> 30
                          [] k \in {"Estate", "Duchy", "Province"} -> IF n = 2 THEN 8 ELSE 12
                          [] k = "Curse" -> IF n = 2 THEN 10 ELSE IF n = 3 THEN 20 ELSE 30
                          [] OTHER -> KingdomCopies]]

\* yuchen.py DominionGame.setup_supply for the kingdom cards sel.
yuchen_setup_supply(sel) ==
    [k \in sel \cup {"Copper", "Silver", "Gold", "Estate", "Duchy", "Province"} |->
        CASE k = "Copper" -> 60
          [] k = "Silver" -> 40
          [] k = "Gold" -> 30
          [] k = "Estate" -> 24
          [] k \in {"Duchy", "Province"} -> 12
          [] OTHER -> KingdomCopies]

\* DominionPlayer.initialize_deck: 7 Copper and 3 Estate, shuffled.
initialize_deck ==
    [n \in CardNames |->
        IF n = "Copper" THEN StartCopper ELSE IF n = "Estate" THEN StartEstate ELSE 0]

\* DominionPlayer.__init__
DominionPlayer ==
    [deck |-> initialize_deck, hand |-> EmptyBag, discard_pile |-> EmptyBag,
     actions |-> 1, buys |-> 1, coins |-> 0]

\* The selections of num_kingdom_cards kingdom cards.
Selections ==
    {sel \in SUBSET KingdomNames : Cardinality(sel) = Min(NumKingdom, Cardinality(KingdomNames))}

\* The last call made: the method, the player it was called on (0: the game),
\* what it returned.
Call(name, p, ret) == op' = [name |-> name, p |-> p, ret |-> ret]

\* DominionGame.supply as file i sets it up for the kingdom cards sel.
Setup(i, sel) ==
    IF i = "main" THEN main_initialize_supply(NumPlayers, sel).supply ELSE yuchen_setup_supply(sel)

\* The players and the game as file i constructs them; s is the supply dict.
Construct(i, s) ==
    /\ impl = i
    /\ players = [p \in Players |-> DominionPlayer]
    /\ supply = s
    /\ game_over = FALSE
    /\ turn = 0
    /\ cur = 0
    /\ bought = [p \in Players |-> 0]
    /\ scores = <<>>
    /\ op = [name |-> "__init__", p |-> 0, ret |-> "None"]

(* --------------------------- main.py player --------------------------- *)

\* A shuffle_discard_into_deck that empties the discard pile without adding
\* it to the deck.
main_shuffle_discard_into_deck_drops(pl) ==
    [top |-> pl.deck, under |-> EmptyBag, discard_pile |-> EmptyBag]

\* main.py DominionPlayer.shuffle_discard_into_deck: the deck keeps its cards
\* on top (top) and gets the shuffled discard pile under them (under).
main_shuffle_discard_into_deck(pl) ==
    [top |-> pl.deck, under |-> pl.discard_pile, discard_pile |-> EmptyBag]

\* A call of shuffle_discard_into_deck on pl, as the log of a draw keeps it:
\* the lengths of the deck and of the discard pile when it is called.
Shuffle(pl) == [deck |-> Len_(pl.deck), discard_pile |-> Len_(pl.discard_pile)]

\* main.py DominionPlayer.draw_hand: what it returns, the players it can
\* leave and the calls of shuffle_discard_into_deck it makes.  The slices
\* deck[:5] and deck[5:] raise nothing on a short deck, and the new hand
\* replaces the old one.
main_draw_hand(pl) ==
    IF Len_(pl.deck) < HandSize
    THEN LET sh == main_shuffle_discard_into_deck(pl)
         IN  {[ret |-> "None",
               pl |-> [pl EXCEPT !.hand = BagPlus(sh.top, t),
                                 !.deck = BagMinus(sh.under, t),
                                 !.discard_pile = sh.discard_pile],
               shuffles |-> <<Shuffle(pl)>>] :
                 t \in FirstOf(sh.under, HandSize - Len_(sh.top))}
    ELSE {[ret |-> "None", pl |-> [pl EXCEPT !.hand = h, !.deck = BagMinus(pl.deck, h)],
           shuffles |-> <<>>] :
             h \in FirstOf(pl.deck, HandSize)}

\* main.py DominionPlayer.play_action_card(card): the players it can leave.
main_play_action_card(pl, card) ==
    {r.pl : r \in main_draw_hand([pl EXCEPT !.actions = @ - 1,
                                            !.coins = @ + card_coins(card),
                                            !.buys = @ + card_buys(card)])}

\* A buy_card that does not look at the pile's count.
main_buy_card_sells_empty(pl, card, cost, s) ==
    IF cost <= pl.coins /\ card \in DOMAIN s
    THEN [ret |-> "True",
          pl |-> [pl EXCEPT !.coins = @ - cost, !.buys = @ - 1,
                            !.discard_pile = BagAdd(@, card)],
          supply |-> [s EXCEPT ![card] = @ - 1]]
    ELSE [ret |-> "False", pl |-> pl, supply |-> s]

\* A buy_card that takes the card off the pile before it looks at the coins.
main_buy_card_counts_first(pl, card, cost, s) ==
    IF card \in DOMAIN s /\ s[card] > 0
    THEN IF cost <= pl.coins
         THEN [ret |-> "True",
               pl |-> [pl EXCEPT !.coins = @ - cost, !.buys = @ - 1,
                                 !.discard_pile = BagAdd(@, card)],
               supply |-> [s EXCEPT ![card] = @ - 1]]
         ELSE [ret |-> "False", pl |-> pl, supply |-> [s EXCEPT ![card] = @ - 1]]
    ELSE [ret |-> "False", pl |-> pl, supply |-> s]

\* main.py DominionPlayer.buy_card(card, supply), with card.cost = cost and
\* supply = s: what it returns and the player and the supply it leaves.
main_buy_card(pl, card, cost, s) ==
    IF cost <= pl.coins /\ card \in DOMAIN s /\ s[card] > 0
    THEN [ret |-> "True",
          pl |-> [pl EXCEPT !.coins = @ - cost, !.buys = @ - 1,
                            !.discard_pile = BagAdd(@, card)],
          supply |-> [s EXCEPT ![card] = @ - 1]]
    ELSE [ret |-> "False", pl |-> pl, supply |-> s]

\* An end_turn that forgets to reset the coins.
main_end_turn_keeps_coins(pl) ==
    [pl EXCEPT !.discard_pile = BagPlus(@, pl.hand), !.hand = EmptyBag,
               !.actions = 1, !.buys = 1]

\* An end_turn that takes 1 off the actions and the buys where it should set
\* them to 1.
main_end_turn_subtracts(pl) ==
    [pl EXCEPT !.discard_pile = BagPlus(@, pl.hand), !.hand = EmptyBag,
               !.actions = @ - 1, !.buys = @ - 1, !.coins = 0]

\* main.py DominionPlayer.end_turn
main_end_turn(pl) ==
    [pl EXCEPT !.discard_pile = BagPlus(@, pl.hand), !.hand = EmptyBag,
               !.actions = 1, !.buys = 1, !.coins = 0]

(* -------------------------- yuchen.py player -------------------------- *)

\* yuchen.py DominionPlayer.shuffle_discard_into_deck
yuchen_shuffle_discard_into_deck(pl) ==
    [pl EXCEPT !.deck = pl.discard_pile, !.discard_pile = EmptyBag]

\* yuchen.py DominionPlayer.draw_card: the calls of
\* shuffle_discard_into_deck it makes.
yuchen_draw_card_shuffles(pl) ==
    IF Len_(pl.deck) = 0 /\ Len_(pl.discard_pile) > 0 THEN <<Shuffle(pl)>> ELSE <<>>

\* yuchen.py DominionPlayer.draw_card: the players it can leave.
yuchen_draw_card(pl) ==
    LET p1 == IF yuchen_draw_card_shuffles(pl) # <<>>
              THEN yuchen_shuffle_discard_into_deck(pl) ELSE pl
    IN  IF Len_(p1.deck) > 0
        THEN {[p1 EXCEPT !.deck = BagRemove(@, n), !.hand = BagAdd(@, n)] :
                 n \in {m \in CardNames : p1.deck[m] > 0}}
        ELSE {p1}

\* k calls of draw_card, from any of the players of P.
RECURSIVE yuchen_draw_cards(_, _)
yuchen_draw_cards(P, k) ==
    IF k = 0 THEN P
    ELSE yuchen_draw_cards(UNION {yuchen_draw_card(pl) : pl \in P}, k - 1)

\* The loop of yuchen.py DominionPlayer.draw_hand, from any of the outcomes
\* of R (with the shuffles so far): it calls draw_card while len(hand) < 5.  With the deck and the
\* discard pile empty draw_card changes nothing and the loop never ends: the
\* outcome is then "hangs".
RECURSIVE yuchen_draw_hand_loop(_)
yuchen_draw_hand_loop(R) ==
    LET more == {r \in R : r.ret = "None" /\ Len_(r.pl.hand) < HandSize}
        stuck == {r \in more : yuchen_draw_card(r.pl) = {r.pl}}
    IN  IF more = {} THEN R
        ELSE yuchen_draw_hand_loop(
                 (R \ more)
                 \cup {[r EXCEPT !.ret = "hangs"] : r \in stuck}
                 \cup UNION {{[ret |-> "None", pl |-> q,
                                shuffles |-> r.shuffles \o yuchen_draw_card_shuffles(r.pl)] :
                                  q \in yuchen_draw_card(r.pl)} : r \in more \ stuck})

\* yuchen.py DominionPlayer.draw_hand: what it returns, the player it leaves
\* and the calls of shuffle_discard_into_deck it makes.
yuchen_draw_hand(pl) ==
    yuchen_draw_hand_loop({[ret |-> "None", pl |-> pl, shuffles |-> <<>>]})

\* yuchen.py DominionPlayer.play_action_card(card); held says whether the
\* card object is one of the hand.
yuchen_play_action_card(pl, card, held) ==
    IF pl.actions <= 0 THEN {[ret |-> "False", pl |-> pl]}
    ELSE IF ~held THEN {[ret |-> "False", pl |-> pl]}
    ELSE {[ret |-> "True",
           pl |-> [q EXCEPT !.hand = BagRemove(@, card),
                            !.discard_pile = BagAdd(@, card)]] :
             q \in yuchen_draw_cards({[pl EXCEPT !.actions = @ - 1,
                                                 !.coins = @ + card_coins(card),
                                                 !.buys = @ + card_buys(card)]},
                                     card_draw(card))}

\* A buy_card that takes the buy before it looks at the pile.
yuchen_buy_card_spends_first(pl, card, cost, s) ==
    IF pl.buys <= 0 THEN [ret |-> "False", pl |-> pl, supply |-> s]
    ELSE IF cost > pl.coins THEN [ret |-> "False", pl |-> pl, supply |-> s]
    ELSE IF card \notin DOMAIN s THEN [ret |-> "KeyError", pl |-> pl, supply |-> s]
    ELSE IF s[card] <= 0
    THEN [ret |-> "False", pl |-> [pl EXCEPT !.buys = @ - 1], supply |-> s]
    ELSE [ret |-> "True",
          pl |-> [pl EXCEPT !.coins = @ - cost, !.buys = @ - 1,
                            !.discard_pile = BagAdd(@, card)],
          supply |-> [s EXCEPT ![card] = @ - 1]]

\* yuchen.py DominionPlayer.buy_card(card, supply), with card.cost = cost and
\* supply = s.  supply[card.name] raises KeyError for a name that is no key.
yuchen_buy_card(pl, card, cost, s) ==
    IF pl.buys <= 0 THEN [ret |-> "False", pl |-> pl, supply |-> s]
    ELSE IF cost > pl.coins THEN [ret |-> "False", pl |-> pl, supply |-> s]
    ELSE IF card \notin DOMAIN s THEN [ret |-> "KeyError", pl |-> pl, supply |-> s]
    ELSE IF s[card] <= 0 THEN [ret |-> "False", pl |-> pl, supply |-> s]
    ELSE [ret |-> "True",
          pl |-> [pl EXCEPT !.coins = @ - cost, !.buys = @ - 1,
                            !.discard_pile = BagAdd(@, card)],
          supply |-> [s EXCEPT ![card] = @ - 1]]

\* yuchen.py DominionPlayer.end_turn: it ends with draw_hand().
yuchen_end_turn(pl) ==
    yuchen_draw_hand([pl EXCEPT !.discard_pile = BagPlus(@, pl.hand), !.hand = EmptyBag,
                                !.actions = 1, !.buys = 1, !.coins = 0])

(* ------------------------ the methods, called ------------------------- *)

\* The supply dict with at most MaxPile cards left in each pile.
LastCards(s) == [k \in DOMAIN s |-> Min(s[k], MaxPile)]

Init ==
    /\ \E i \in {"main", "yuchen"}, sel \in Selections : Construct(i, LastCards(Setup(i, sel)))
    /\ pc = "api"

\* The counters of pl are within the bounds the model follows them to.
Followed(pl) ==
    /\ pl.actions >= 0 - MaxDebt
    /\ pl.buys >= 0 - MaxDebt /\ pl.buys <= MaxCounter
    /\ pl.coins <= MaxCounter

\* Player p becomes pl, by a call of the method name that returns ret; a call
\* that hangs never returns.
Returns(name, p, ret, pl) ==
    /\ Followed(pl)
    /\ players' = [players EXCEPT ![p] = pl]
    /\ Call(name, p, ret)
    /\ pc' = IF ret = "hangs" THEN "hung" ELSE pc

\* The supply and the count of buys after a call of buy_card with outcome r.
Bought(p, r) ==
    /\ r.ret = "True" => bought[p] < MaxBought
    /\ supply' = r.supply
    /\ bought' = [bought EXCEPT ![p] = IF r.ret = "True" THEN @ + 1 ELSE @]

Call_main_draw_hand(p) ==
    /\ pc = "api" /\ impl = "main"
    /\ \E r \in main_draw_hand(players[p]) : Returns("draw_hand", p, r.ret, r.pl)
    /\ UNCHANGED <<impl, scores, supply, game_over, turn, cur, bought>>

Call_main_play_action_card(p, card, held) ==
    /\ pc = "api" /\ impl = "main"
    /\ held => players[p].hand[card] > 0
    /\ \E pl \in main_play_action_card(players[p], card) :
          Returns("play_action_card", p, "None", pl)
    /\ UNCHANGED <<impl, scores, supply, game_over, turn, cur, bought>>

Call_main_buy_card(p, card, cost) ==
    /\ pc = "api" /\ impl = "main"
    /\ LET r == main_buy_card(players[p], card, cost, supply)
       IN  Returns("buy_card", p, r.ret, r.pl) /\ Bought(p, r)
    /\ UNCHANGED <<impl, scores, game_over, turn, cur>>

Call_main_end_turn(p) ==
    /\ pc = "api" /\ impl = "main"
    /\ Returns("end_turn", p, "None", main_end_turn(players[p]))
    /\ UNCHANGED <<impl, scores, supply, game_over, turn, cur, bought>>

Call_yuchen_draw_hand(p) ==
    /\ pc = "api" /\ impl = "yuchen"
    /\ \E r \in yuchen_draw_hand(players[p]) : Returns("draw_hand", p, r.ret, r.pl)
    /\ UNCHANGED <<impl, scores, supply, game_over, turn, cur, bought>>

Call_yuchen_play_action_card(p, card, held) ==
    /\ pc = "api" /\ impl = "yuchen"
    /\ held => players[p].hand[card] > 0
    /\ \E r \in yuchen_play_action_card(players[p], card, held) :
          Returns("play_action_card", p, r.ret, r.pl)
    /\ UNCHANGED <<impl, scores, supply, game_over, turn, cur, bought>>

Call_yuchen_buy_card(p, card, cost) ==
    /\ pc = "api" /\ impl = "yuchen"
    /\ LET r == yuchen_buy_card(players[p], card, cost, supply)
       IN  Returns("buy_card", p, r.ret, r.pl) /\ Bought(p, r)
    /\ UNCHANGED <<impl, scores, game_over, turn, cur>>

Call_yuchen_end_turn(p) ==
    /\ pc = "api" /\ impl = "yuchen"
    /\ \E r \in yuchen_end_turn(players[p]) : Returns("end_turn", p, r.ret, r.pl)
    /\ UNCHANGED <<impl, scores, supply, game_over, turn, cur, bought>>

(* ----------------------- main.py DominionGame ------------------------- *)

\* What the game loop reads from input(): 'skip', the names handed to the
\* player methods, and a name that is no key of any supply.
Typed == Handed \cup {"skip", "Platinum"}

\* main.py DominionGame.get_card_by_name(name) with self.supply = s.  For a
\* key of the supply it reads self.supply[card].card_type, an attribute of an
\* int: AttributeError.  For any other name it returns None.
main_get_card_by_name(name, s) ==
    IF name \in DOMAIN s THEN "AttributeError" ELSE "None"

\* main.py DominionGame.num_players, len(players).
num_players == Cardinality(DOMAIN players)

\* A get_current_player that is one player ahead of the turn number.
main_get_current_player_ahead == ((turn + 1) % num_players) + 1

\* main.py DominionGame.get_current_player, as an index of players.
main_get_current_player == (turn % num_players) + 1

\* The keys of the supply s in the order the dict holds them.
Keys(s) == SelectSeq(BasicOrder \o KingdomOrder, LAMBDA k : k \in DOMAIN s)

\* The loop of main.py DominionGame.check_game_over over the keys ks from
\* index i on: <<empty_piles, self.game_over>> when the loop ends, empty and
\* over being their values so far.
RECURSIVE main_count_empty_piles(_, _, _, _, _)
main_count_empty_piles(s, ks, i, empty, over) ==
    IF i > Len(ks) THEN <<empty, over>>
    ELSE IF s[ks[i]] = 0
         THEN IF ks[i] = "Province" THEN <<empty + 1, TRUE>>
              ELSE main_count_empty_piles(s, ks, i + 1, empty + 1, over)
         ELSE main_count_empty_piles(s, ks, i + 1, empty, over)

\* A check_game_over that ends the game on more than three empty piles.
main_check_game_over_fourth_pile(s, over) ==
    LET r == main_count_empty_piles(s, Keys(s), 1, 0, over)
    IN  IF r[1] > EndPiles THEN TRUE ELSE r[2]

\* A scoring that adds the Gardens bonus once, however many Gardens are owned.
main_score_gardens_once(pl) ==
    LET cards == AllCards(pl)
        points == [n \in CardNames |->
                     IF card_type(n) = "Victory" \/ card_type(n) = "Curse"
                     THEN cards[n] * card_vp(n) ELSE 0]
    IN  SumOver(points, CardNames) + (IF cards["Gardens"] > 0 THEN Owned(pl) \div 10 ELSE 0)

\* main.py DominionGame.check_game_over, the score of one player: the loop
\* over player.deck + player.hand + player.discard_pile.
main_score(pl) ==
    LET cards == AllCards(pl)
        points == [n \in CardNames |->
                     cards[n] * ((IF card_type(n) = "Victory" \/ card_type(n) = "Curse"
                                  THEN card_vp(n) ELSE 0)
                                 + (IF n = "Gardens" THEN Owned(pl) \div 10 ELSE 0))]
    IN  SumOver(points, CardNames)

\* main.py DominionGame.check_game_over, the dict scores it computes when
\* the game is over; ps are the players.
main_scores(ps) == [p \in DOMAIN ps |-> main_score(ps[p])]

\* main.py DominionGame.check_game_over with self.supply = s and
\* self.game_over = over: the new self.game_over.
main_check_game_over(s, over) ==
    LET r == main_count_empty_piles(s, Keys(s), 1, 0, over)
    IN  IF r[1] >= EndPiles THEN TRUE ELSE r[2]

\* main.py DominionGame.start_game: every player draws a hand.
main_start_game ==
    /\ pc = "start" /\ impl = "main"
    /\ players' \in {f \in [DOMAIN players ->
                                UNION {{r.pl : r \in main_draw_hand(players[q])} : q \in DOMAIN players}] :
                       \A q \in DOMAIN players : f[q] \in {r.pl : r \in main_draw_hand(players[q])}}
    /\ pc' = "loop"
    /\ Call("start_game", 0, "None")
    /\ UNCHANGED <<impl, scores, supply, game_over, turn, cur, bought>>

\* A game loop that does not test game_over.
main_play_loop_forever ==
    /\ pc = "loop" /\ impl = "main"
    /\ turn < MaxTurns
    /\ pc' = "action"
    /\ Call("game_loop", 0, "play_turn")
    /\ UNCHANGED <<impl, scores, players, supply, game_over, turn, cur, bought>>

\* __main__: while not game.game_over: game.play_turn().  play_turn begins
\* with the action phase.
main_play_loop ==
    /\ pc = "loop" /\ impl = "main"
    /\ game_over \/ turn < MaxTurns
    /\ pc' = IF game_over THEN "done" ELSE "action"
    /\ Call("game_loop", 0, IF game_over THEN "exit" ELSE "play_turn")
    /\ UNCHANGED <<impl, scores, players, supply, game_over, turn, cur, bought>>

\* main.py DominionGame.play_turn, one round of the action phase loop with
\* typed read from input().  The card get_card_by_name returns is a new
\* object, so `card in player.hand` (in_hand) is False.
main_action_phase(typed) ==
    /\ pc = "action" /\ impl = "main"
    /\ LET p == main_get_current_player
           card == main_get_card_by_name(typed, supply)
           in_hand == FALSE
       IN  IF players[p].actions <= 0
           THEN pc' = "buy" /\ players' = players /\ Call("action_phase", p, "over")
           ELSE IF typed = "skip"
           THEN pc' = "buy" /\ players' = players /\ Call("action_phase", p, "skip")
           ELSE IF card = "AttributeError"
           THEN pc' = "crashed" /\ players' = players /\ Call("action_phase", p, card)
           ELSE IF card # "None" /\ IsAction(card) /\ in_hand
           THEN /\ players' \in {[players EXCEPT ![p] = pl] :
                                    pl \in main_play_action_card(players[p], card)}
                /\ pc' = pc /\ Call("action_phase", p, "played")
           ELSE pc' = pc /\ players' = players /\ Call("action_phase", p, "Invalid card")
    /\ UNCHANGED <<impl, scores, supply, game_over, turn, cur, bought>>

\* A buy phase whose loop does not test the buys left.
main_buy_phase_unbounded(typed) ==
    /\ pc = "buy" /\ impl = "main"
    /\ LET p == main_get_current_player
           card == main_get_card_by_name(typed, supply)
       IN  IF typed = "skip"
           THEN /\ pc' = "cleanup" /\ Call("buy_phase", p, "skip")
                /\ UNCHANGED <<players, supply, bought>>
           ELSE IF card = "AttributeError"
           THEN /\ pc' = "crashed" /\ Call("buy_phase", p, card)
                /\ UNCHANGED <<players, supply, bought>>
           ELSE IF card # "None" /\ main_buy_card(players[p], card, 0, supply).ret = "True"
           THEN LET r == main_buy_card(players[p], card, 0, supply)
                IN  /\ players' = [players EXCEPT ![p] = r.pl]
                    /\ Bought(p, r)
                    /\ pc' = pc /\ Call("buy_phase", p, "bought")
           ELSE /\ pc' = pc /\ Call("buy_phase", p, "Invalid card")
                /\ UNCHANGED <<players, supply, bought>>
    /\ UNCHANGED <<impl, scores, game_over, turn, cur>>

\* main.py DominionGame.play_turn, one round of the buy phase loop with typed
\* read from input().
main_buy_phase(typed) ==
    /\ pc = "buy" /\ impl = "main"
    /\ LET p == main_get_current_player
           card == main_get_card_by_name(typed, supply)
       IN  IF players[p].buys <= 0
           THEN /\ pc' = "cleanup" /\ Call("buy_phase", p, "over")
                /\ UNCHANGED <<players, supply, bought>>
           ELSE IF typed = "skip"
           THEN /\ pc' = "cleanup" /\ Call("buy_phase", p, "skip")
                /\ UNCHANGED <<players, supply, bought>>
           ELSE IF card = "AttributeError"
           THEN /\ pc' = "crashed" /\ Call("buy_phase", p, card)
                /\ UNCHANGED <<players, supply, bought>>
           ELSE IF card # "None" /\ main_buy_card(players[p], card, 0, supply).ret = "True"
           THEN LET r == main_buy_card(players[p], card, 0, supply)
                IN  /\ players' = [players EXCEPT ![p] = r.pl]
                    /\ Bought(p, r)
                    /\ pc' = pc /\ Call("buy_phase", p, "bought")
           ELSE /\ pc' = pc /\ Call("buy_phase", p, "Invalid card")
                /\ UNCHANGED <<players, supply, bought>>
    /\ UNCHANGED <<impl, scores, game_over, turn, cur>>

\* main.py DominionGame.play_turn, its end: end_turn, draw_hand,
\* check_game_over, and the turn number goes up.
main_cleanup ==
    /\ pc = "cleanup" /\ impl = "main"
    /\ LET p == main_get_current_player
       IN  /\ players' \in {[players EXCEPT ![p] = r.pl] :
                               r \in main_draw_hand(main_end_turn(players[p]))}
           /\ Call("cleanup", p, "None")
    /\ game_over' = main_check_game_over(supply, game_over)
    /\ scores' = IF game_over' THEN main_scores(players') ELSE scores
    /\ turn' = turn + 1
    /\ pc' = "loop"
    /\ UNCHANGED <<impl, supply, cur, bought>>

(* ---------------------- yuchen.py DominionGame ------------------------ *)

\* yuchen.py DominionGame.play: while not self.game_over, and the start of
\* the for loop over the players.
yuchen_play ==
    /\ pc = "loop" /\ impl = "yuchen"
    /\ IF game_over THEN pc' = "done" /\ cur' = cur
       ELSE pc' = "for" /\ cur' = 1
    /\ Call("game_loop", 0, IF game_over THEN "exit" ELSE "for")
    /\ UNCHANGED <<impl, scores, players, supply, game_over, turn, bought>>

\* yuchen.py DominionGame.play, the body of the for loop for the player at
\* cur: player.draw_hand(), the last line of the file.
yuchen_play_for ==
    /\ pc = "for" /\ impl = "yuchen"
    /\ \E r \in yuchen_draw_hand(players[cur]) :
          /\ players' = [players EXCEPT ![cur] = r.pl]
          /\ Call("draw_hand", cur, r.ret)
          /\ pc' = IF r.ret = "hangs" THEN "hung"
                   ELSE IF cur = num_players THEN "loop" ELSE pc
          /\ cur' = IF r.ret = "hangs" THEN cur
                    ELSE IF cur = num_players THEN 0 ELSE cur + 1
    /\ UNCHANGED <<impl, scores, supply, game_over, turn, bought>>

(* ------------- Spec: the methods, called in any order ----------------- *)

\* A call game.check_game_over().
Call_main_check_game_over ==
    /\ pc = "api" /\ impl = "main"
    /\ game_over' = main_check_game_over(supply, game_over)
    /\ scores' = IF game_over' THEN main_scores(players) ELSE scores
    /\ Call("check_game_over", 0, "None")
    /\ UNCHANGED <<impl, players, supply, turn, cur, pc, bought>>

Next ==
    \/ \E p \in Tested : Call_main_draw_hand(p)
    \/ \E p \in Tested, card \in Handed, held \in BOOLEAN : Call_main_play_action_card(p, card, held)
    \/ \E p \in Tested, card \in Handed, cost \in 0..MaxCost : Call_main_buy_card(p, card, cost)
    \/ \E p \in Tested : Call_main_end_turn(p)
    \/ Call_main_check_game_over
    \/ \E p \in Tested : Call_yuchen_draw_hand(p)
    \/ \E p \in Tested, card \in Handed, held \in BOOLEAN : Call_yuchen_play_action_card(p, card, held)
    \/ \E p \in Tested, card \in Handed, cost \in 0..MaxCost : Call_yuchen_buy_card(p, card, cost)
    \/ \E p \in Tested : Call_yuchen_end_turn(p)

Spec == Init /\ [][Next]_vars

(* ------------------- SpecGame: the game loop, run --------------------- *)

\* The supply dict s with the piles of E sold out.
Emptied(s, E) == [k \in DOMAIN s |-> IF k \in E THEN 0 ELSE s[k]]

\* The game is constructed and its loop starts; buy_card calls have sold out
\* up to MaxEmptied piles of its supply.
InitGame ==
    /\ \E i \in {"main", "yuchen"}, sel \in Selections :
          \E E \in {F \in SUBSET DOMAIN Setup(i, sel) : Cardinality(F) <= MaxEmptied} :
             Construct(i, Emptied(Setup(i, sel), E))
    /\ pc = IF impl = "main" THEN "start" ELSE "loop"

NextGame ==
    \/ main_start_game
    \/ main_play_loop
    \/ \E typed \in Typed : main_action_phase(typed)
    \/ \E typed \in Typed : main_buy_phase(typed)
    \/ main_cleanup
    \/ yuchen_play
    \/ yuchen_play_for

SpecGame == InitGame /\ [][NextGame]_vars

(* ------------- SpecDraw: draw_hand, on any DominionPlayer ------------- *)

\* The zones of the players draw_hand is called on: deck, hand and
\* discard_pile are public lists, here of up to MaxZone Coppers and Estates.
GivenZones ==
    {b \in [CardNames -> 0..MaxZone] : \A n \in CardNames \ {"Copper", "Estate"} : b[n] = 0}

\* A game of either file, the zones of its first player set to given lists.
InitDraw ==
    /\ impl \in {"main", "yuchen"}
    /\ \E d \in GivenZones, h \in GivenZones, x \in GivenZones :
          players = [p \in Players |->
                        IF p \in Tested
                        THEN [DominionPlayer EXCEPT !.deck = d, !.hand = h, !.discard_pile = x]
                        ELSE DominionPlayer]
    /\ \E sel \in Selections : supply = Setup(impl, sel)
    /\ game_over = FALSE
    /\ turn = 0
    /\ cur = 0
    /\ bought = [p \in Players |-> 0]
    /\ scores = <<>>
    /\ op = [name |-> "__init__", p |-> 0, ret |-> "None"]
    /\ pc = "api"

NextDraw ==
    \/ \E p \in Tested : Call_main_draw_hand(p)
    \/ \E p \in Tested : Call_yuchen_draw_hand(p)

SpecDraw == InitDraw /\ [][NextDraw]_vars

(* ------------- SpecScore: check_game_over, on any players ------------- *)

\* The decks of the players that are scored: up to MaxZone cards of each
\* name that has a card_type of its own.
ScoredDecks ==
    {b \in [CardNames -> 0..MaxZone] : b["Market"] = 0}

\* A main.py game whose first player owns any cards, some of them in the
\* hand and in the discard pile, and whose Province pile may be sold out.
InitScore ==
    /\ impl = "main"
    /\ \E d \in ScoredDecks, h \in {EmptyBag, BagAdd(EmptyBag, "Gardens")},
          x \in {EmptyBag, BagAdd(EmptyBag, "Estate")} :
          players = [p \in Players |->
                        IF p \in Tested
                        THEN [DominionPlayer EXCEPT !.deck = d, !.hand = h, !.discard_pile = x]
                        ELSE DominionPlayer]
    /\ \E sel \in Selections, E \in {{}, {"Province"}} : supply = Emptied(Setup(impl, sel), E)
    /\ game_over = FALSE
    /\ turn = 0
    /\ cur = 0
    /\ bought = [p \in Players |-> 0]
    /\ scores = <<>>
    /\ op = [name |-> "__init__", p |-> 0, ret |-> "None"]
    /\ pc = "api"

NextScore == Call_main_check_game_over

SpecScore == InitScore /\ [][NextScore]_vars

(* --------- SpecTurn: play_turn, whatever the player's counters -------- *)

\* A main.py game about to start whose first player has any actions and buys
\* left, as calls of the player's methods leave them.
InitTurn ==
    /\ impl = "main"
    /\ \E a \in 0..MaxCounter, b \in 0..MaxCounter :
          players = [p \in Players |->
                        IF p \in Tested
                        THEN [DominionPlayer EXCEPT !.actions = a, !.buys = b]
                        ELSE DominionPlayer]
    /\ \E sel \in Selections : supply = Setup(impl, sel)
    /\ game_over = FALSE
    /\ turn = 0
    /\ cur = 0
    /\ bought = [p \in Players |-> 0]
    /\ scores = <<>>
    /\ op = [name |-> "__init__", p |-> 0, ret |-> "None"]
    /\ pc = "start"

NextTurn ==
    \/ main_start_game
    \/ main_play_loop
    \/ \E typed \in Typed : main_action_phase(typed)
    \/ \E typed \in Typed : main_buy_phase(typed)
    \/ main_cleanup

SpecTurn == InitTurn /\ [][NextTurn]_vars

(* ----------- SpecSetup: a game is created, then its loop run ---------- *)

\* main.py DominionGame.__init__(players, num_kingdom_cards), the kingdom
\* cards selected being sel; then __main__ goes on to start_game.
main_init(sel) ==
    /\ pc = "new" /\ impl = "main"
    /\ LET r == main_initialize_supply(num_players, sel)
       IN  /\ supply' = r.supply
           /\ pc' = IF r.ret = "None" THEN "start" ELSE r.ret
           /\ Call("__init__", 0, r.ret)
    /\ UNCHANGED <<impl, scores, players, game_over, turn, cur, bought>>

\* yuchen.py DominionGame.__init__(players, kingdom_cards), the names of the
\* kingdom cards being sel; then play() is called.
yuchen_init(sel) ==
    /\ pc = "new" /\ impl = "yuchen"
    /\ supply' = yuchen_setup_supply(sel)
    /\ pc' = "loop"
    /\ Call("__init__", 0, "None")
    /\ UNCHANGED <<impl, scores, players, game_over, turn, cur, bought>>

\* DominionGame(...) is about to be called with 1 to MaxPlayers players.
InitSetup ==
    /\ impl \in {"main", "yuchen"}
    /\ \E n \in 1..MaxPlayers : players = [p \in 1..n |-> DominionPlayer]
    /\ supply = NoSupply
    /\ game_over = FALSE
    /\ turn = 0
    /\ cur = 0
    /\ bought = [p \in DOMAIN players |-> 0]
    /\ scores = <<>>
    /\ op = [name |-> "DominionGame", p |-> 0, ret |-> "None"]
    /\ pc = "new"

NextSetup ==
    \/ \E sel \in Selections : main_init(sel)
    \/ \E sel \in Selections : yuchen_init(sel)
    \/ main_start_game
    \/ main_play_loop
    \/ \E typed \in Typed : main_action_phase(typed)
    \/ \E typed \in Typed : main_buy_phase(typed)
    \/ main_cleanup
    \/ yuchen_play
    \/ yuchen_play_for

SpecSetup == InitSetup /\ [][NextSetup]_vars

(* ------------------------------ claims -------------------------------- *)

\* The piles of the supply that are at 0.
EmptyPiles == {k \in DOMAIN supply : supply[k] = 0}

\* A step that is a call play_action_card(card) on player p.
PlayStep(p, card, held) ==
    Call_main_play_action_card(p, card, held) \/ Call_yuchen_play_action_card(p, card, held)

\* A step that is a call buy_card(card, supply) on player p.
BuyStep(p, card, cost) ==
    Call_main_buy_card(p, card, cost) \/ Call_yuchen_buy_card(p, card, cost)

\* C1: every player's deck, hand and discard pile together hold the 10
\* starting cards plus one card per successful buy, whatever calls were made.
C1_CardsConserved ==
    \A p \in Players : Owned(players[p]) = StartCopper + StartEstate + bought[p]

\* C2: no supply count is ever negative, and no step increases a count.
C2_SupplyNeverGrows ==
    /\ [](\A k \in DOMAIN supply : supply[k] >= 0)
    /\ [][\A k \in DOMAIN supply : supply'[k] <= supply[k]]_vars

\* A successful buy took the last card of a pile.
C2_Witness ==
    /\ op.name = "buy_card" /\ op.ret = "True"
    /\ EmptyPiles # {}

\* C3: the check at the end of a turn leaves game_over true exactly when the
\* Province pile is at 0 or at least three piles are at 0.
C3_GameOverExactly ==
    [][op'.name = "cleanup" =>
          (game_over' <=> (supply'["Province"] = 0 \/ Cardinality(EmptyPiles') >= 3))]_vars

\* The check ended the game on exactly three empty piles, Province not one.
C3_Witness ==
    /\ op.name = "cleanup" /\ game_over
    /\ supply["Province"] > 0 /\ Cardinality(EmptyPiles) = 3

\* C4: once game_over is true no turn is played: the loop ends, and no
\* player, pile or turn number changes.
C4_NoTurnAfterGameOver ==
    [][game_over =>
          /\ pc' = "done"
          /\ UNCHANGED <<players, supply, turn, game_over>>]_vars

\* The game loop ended because game_over was true.
C4_Witness ==
    /\ game_over /\ pc = "done"
    /\ op.name = "game_loop" /\ op.ret = "exit"

\* C5: playing an Action card of the hand with an action left takes one
\* action, adds the card's coins and buys, draws the card's bonus cards and
\* moves the card to the discard pile; the other hand cards stay in the hand.
C5_PlayEffects ==
    [][\A p \in Tested, card \in Handed :
          (PlayStep(p, card, TRUE) /\ players[p].actions > 0 /\ IsAction(card)) =>
             LET pl == players[p]
                 ql == players'[p]
             IN  /\ ql.actions = pl.actions - 1
                 /\ ql.coins = pl.coins + card_coins(card)
                 /\ ql.buys = pl.buys + card_buys(card)
                 /\ Len_(ql.hand) = Len_(pl.hand) - 1
                       + Min(card_draw(card), Len_(pl.deck) + Len_(pl.discard_pile))
                 /\ ql.discard_pile[card] >= 1
                 /\ BagLeq(BagRemove(pl.hand, card), ql.hand)]_vars

\* C6: a play with no action left, of a card that is no Action, or of a card
\* that is not in the hand fails and changes nothing.
C6_InvalidPlayNoChange ==
    [][\A p \in Tested, card \in Handed, held \in BOOLEAN :
          (/\ PlayStep(p, card, held)
           /\ (players[p].actions = 0 \/ ~IsAction(card) \/ ~held)) =>
             /\ op'.ret = "False"
             /\ players' = players]_vars

\* C7: a buy succeeds only with a buy left, the coins for the cost and a card
\* left in the pile.
C7_BuyPreconditions ==
    [][\A p \in Tested, card \in Handed, cost \in 0..MaxCost :
          (BuyStep(p, card, cost) /\ op'.ret = "True") =>
             /\ players[p].buys > 0
             /\ players[p].coins >= cost
             /\ card \in DOMAIN supply /\ supply[card] > 0]_vars

\* C8: a buy that fails leaves the player and every supply count as they were.
C8_FailedBuyNoChange ==
    [][(op'.name = "buy_card" /\ op'.ret # "True") =>
          UNCHANGED <<players, supply>>]_vars

\* A buy failed although the player had a buy left and the coins for any cost:
\* the pile was empty or missing.
C8_Witness ==
    /\ op.name = "buy_card" /\ op.ret = "False"
    /\ players[op.p].buys > 0 /\ players[op.p].coins >= MaxCost

C11_NoFatalError == pc # "crashed"

\* C12: in a game run by the turn loop no player's actions, buys or coins
\* is ever negative.
C12_CountersNonNegative ==
    \A p \in Players :
       players[p].actions >= 0 /\ players[p].buys >= 0 /\ players[p].coins >= 0

\* A player has ended a second turn, the counters reset again.
C12_Witness ==
    /\ op.name = "cleanup" /\ turn > NumPlayers
    /\ players[op.p].actions = 1 /\ players[op.p].buys = 1 /\ players[op.p].coins = 0

\* C13: the kingdom cards main.py's setup puts into the supply are
\* num_kingdom_cards distinct kinds, each of an Action category, each with 10
\* copies.
C13_KingdomSelection ==
    impl = "main" =>
       LET selected == DOMAIN supply \ BasicNames
       IN  /\ Cardinality(selected) = NumKingdom
           /\ \A k \in selected :
                  /\ IsAction(k)
                  /\ main_initialize_supply(NumPlayers, selected).supply[k] = KingdomCopies

\* C14: a game of fewer than 2 or more than 4 players is never constructed:
\* its creation ends in the setup error, and no turn of it begins.
C14_PlayerCountChecked ==
    num_players \notin {2, 3, 4} => pc \in {"new", "ValueError"}

\* C15: when the game is over each player's score is the sum of vp over the
\* owned cards of category Victory or Curse, plus floor(T / 10) for each
\* Gardens owned, T being the number of owned cards.
C15_Scores ==
    (op.name = "check_game_over" /\ game_over) =>
       \A p \in Players :
          LET owned == AllCards(players[p])
              vps == [n \in CardNames |->
                        IF card_type(n) \in {"Victory", "Curse"}
                        THEN owned[n] * card_vp(n) ELSE 0]
          IN  scores[p] = SumOver(vps, CardNames)
                            + owned["Gardens"] * (Owned(players[p]) \div 10)

\* Scores were computed for a player who owns two Gardens among 10 to 19
\* cards, and a Curse.
C15_Witness ==
    /\ op.name = "check_game_over" /\ game_over
    /\ \E p \in Players :
          /\ AllCards(players[p])["Gardens"] = 2
          /\ AllCards(players[p])["Curse"] = 1
          /\ Owned(players[p]) \div 10 = 1

\* The outcomes of a call draw_hand() on the player pl.
DrawHand(pl) == IF impl = "main" THEN main_draw_hand(pl) ELSE yuchen_draw_hand(pl)

\* C16: one draw_hand shuffles the discard pile into the deck at most once,
\* and only when the deck is empty and the discard pile is not.
C16_OneLazyReshuffle ==
    [][op'.name = "draw_hand" =>
          \A r \in DrawHand(players[op'.p]) :
             (r.pl = players'[op'.p] /\ r.ret = op'.ret) =>
                /\ Len(r.shuffles) <= 1
                /\ \A i \in DOMAIN r.shuffles :
                      r.shuffles[i].deck = 0 /\ r.shuffles[i].discard_pile > 0]_vars

\* C17: the k-th turn of a main.py game, counted from 0, is played by
\* players[k mod N]: every step of a turn acts on that player, and the turn
\* number goes up by one when the turn ends, and only then.
C17_TurnOrder ==
    [][op'.name \in {"action_phase", "buy_phase", "cleanup"} =>
          /\ op'.p = (turn % Cardinality(DOMAIN players)) + 1
          /\ turn' = IF op'.name = "cleanup" THEN turn + 1 ELSE turn
          /\ \A q \in DOMAIN players \ {op'.p} : players'[q] = players[q]]_vars

\* The order has come round: the first player has ended a second turn.
C17_Witness ==
    /\ op.name = "cleanup" /\ op.p = 1
    /\ turn = Cardinality(DOMAIN players) + 1

\* C18: a turn runs action phase, buy phase, cleanup, in that order: the
\* action phase is left for the buy phase (at once when actions == 0), the
\* buy phase for the cleanup (at once when buys == 0), nothing is played
\* after the action phase, and the cleanup is one step that ends the turn.
C18_PhaseOrder ==
    [][LET p == (turn % Cardinality(DOMAIN players)) + 1
       IN  /\ pc = "action" => pc' \in {"action", "buy", "crashed"}
           /\ pc = "buy" => pc' \in {"buy", "cleanup", "crashed"} /\ op'.name = "buy_phase"
           /\ pc = "cleanup" => pc' = "loop" /\ op'.name = "cleanup"
           /\ pc' = "action" => pc \in {"loop", "action"}
           /\ pc' = "cleanup" => pc = "buy"
           /\ op'.name = "cleanup" => pc = "cleanup"
           /\ (pc = "action" /\ players[p].actions = 0) => pc' = "buy" /\ players' = players
           /\ (pc = "buy" /\ players[p].buys = 0) =>
                 pc' = "cleanup" /\ players' = players /\ supply' = supply]_vars

\* The buy phase of a turn ended because no buy was left.
C18_Witness ==
    /\ pc = "cleanup"
    /\ op.name = "buy_phase" /\ op.ret = "over"
    /\ players[op.p].buys = 0

\* C19: only a successful buy changes the supply, and it takes exactly one
\* card off the pile of the card bought; every other call leaves every count
\* as it was.
C19_SupplyFrame ==
    [][/\ \A p \in Tested, card \in Handed, cost \in 0..MaxCost :
             (BuyStep(p, card, cost) /\ op'.ret = "True") =>
                supply' = [supply EXCEPT ![card] = @ - 1]
       /\ ~(op'.name = "buy_card" /\ op'.ret = "True") => supply' = supply]_vars

\* Calls that are no buy were made after a successful buy took a card.
C19_Witness ==
    /\ op.name \in {"play_action_card", "end_turn", "draw_hand", "check_game_over"}
    /\ \E p \in Players : bought[p] > 0

\* C20: in a game run by the turn loop every turn starts with 5 cards in the
\* hand: in main.py every player holds 5 cards from start_game on, the
\* cleanup draw refilling the hand, and in yuchen.py the draw_hand that a
\* turn consists of always returns, with 5 cards in the hand.
C20_FullHandAtTurnStart ==
    /\ pc # "hung"
    /\ (impl = "main" /\ pc # "start") =>
          \A p \in Players : Len_(players[p].hand) = HandSize
    /\ (impl = "yuchen" /\ op.name = "draw_hand") =>
          op.ret = "None" /\ Len_(players[op.p].hand) = HandSize

\* A cleanup draw that found the deck empty and reshuffled the 10 discarded
\* cards: 5 in the hand, 5 left in the deck.
C20_Witness ==
    /\ op.name = "cleanup" /\ turn > NumPlayers
    /\ Len_(players[op.p].hand) = HandSize
    /\ Len_(players[op.p].deck) = HandSize
    /\ Len_(players[op.p].discard_pile) = 0

====
